---- MODULE Spec2Model ----
(***************************************************************************)
(* The Infosys DCF dashboard script src/app.py as a state machine.  One    *)
(* run of the script is a straight line of stages (sidebar, growth         *)
(* schedule, revenue loop, line items, working capital, free cash flow,    *)
(* discounting, terminal value, aggregation, summary, sensitivity grid);   *)
(* Streamlit runs the script again from the top whenever a widget changes. *)
(*                                                                         *)
(* Floats are modelled as exact rationals [n, d] in lowest terms, with     *)
(* d = 0 standing for numpy's NaN.  The model therefore states what the    *)
(* arithmetic of the script computes over the reals; binary rounding is    *)
(* outside it.  TLC integers are 32 bits wide, so the widget values are    *)
(* drawn from small sets of halves, quarters and eighths, the two horizon  *)
(* options and the number of grid points are model bounds, and the         *)
(* literals of the grid ranges are coarse rates in the same order as the   *)
(* script's (each definition names the literal it stands for).             *)
(***************************************************************************)
EXTENDS Integers, Sequences, FiniteSets, TLC

\* ------------------------------------------------------------------------
\* Exact arithmetic
\* ------------------------------------------------------------------------
Abs(x) == IF x < 0 THEN -x ELSE x

RECURSIVE GCD(_, _)
GCD(a, b) == IF b = 0 THEN a ELSE GCD(b, a % b)

\* the rational n/d in lowest terms with a positive denominator (d # 0)
Rat(n, d) ==
    LET g == GCD(Abs(n), Abs(d))
        s == IF d < 0 THEN -1 ELSE 1
    IN  [n |-> s * (n \div g), d |-> s * (d \div g)]

NaN == [n |-> 0, d |-> 0]
IsNan(x) == x.d = 0
RZero == [n |-> 0, d |-> 1]
ROne == [n |-> 1, d |-> 1]
RInt(k) == [n |-> k, d |-> 1]

RNeg(a) == IF IsNan(a) THEN NaN ELSE [n |-> -a.n, d |-> a.d]

RAdd(a, b) ==
    IF IsNan(a) \/ IsNan(b) THEN NaN
    ELSE LET g == GCD(a.d, b.d)
             l == (a.d \div g) * b.d
         IN  Rat(a.n * (l \div a.d) + b.n * (l \div b.d), l)

RSub(a, b) == RAdd(a, RNeg(b))

RMul(a, b) ==
    IF IsNan(a) \/ IsNan(b) THEN NaN
    ELSE LET g1 == GCD(Abs(a.n), b.d)
             g2 == GCD(Abs(b.n), a.d)
         IN  [n |-> (a.n \div g1) * (b.n \div g2),
              d |-> (a.d \div g2) * (b.d \div g1)]

\* a / b; the inputs of the model keep every divisor of the script non-zero
RDiv(a, b) ==
    IF IsNan(a) \/ IsNan(b) \/ b.n = 0 THEN NaN
    ELSE RMul(a, Rat(b.d, b.n))

RECURSIVE RPow(_, _)
RPow(a, k) == IF k = 0 THEN ROne ELSE RMul(a, RPow(a, k - 1))

\* float comparisons: every comparison with NaN is false
RLt(a, b) == ~IsNan(a) /\ ~IsNan(b) /\ a.n * b.d < b.n * a.d
RLe(a, b) == ~IsNan(a) /\ ~IsNan(b) /\ a.n * b.d <= b.n * a.d
REq(a, b) == ~IsNan(a) /\ ~IsNan(b) /\ a = b
RMax(a, b) == IF RLt(a, b) THEN b ELSE a

RECURSIVE RSum(_)
RSum(s) == IF s = <<>> THEN RZero ELSE RAdd(Head(s), RSum(Tail(s)))

Min(a, b) == IF a < b THEN a ELSE b

\* df[col] * ratio, row by row
ColMul(col, r) == [i \in 1..Len(col) |-> RMul(col[i], r)]

\* ------------------------------------------------------------------------
\* Bounds of the model
\* ------------------------------------------------------------------------
\* the two options of the horizon selectbox (the script offers 5 and 10)
ShortHorizon == 2
LongHorizon == 3
\* points per axis of the sensitivity grid (the script asks linspace for 12)
GridPoints == 3

\* ------------------------------------------------------------------------
\* Literals of the script
\* ------------------------------------------------------------------------
\* 1 crore = 10,000,000 rupees
UnitScale == 10000000
\* the flat rate of the fallback schedule [0.06]*horizon
FallbackGrowth == Rat(1, 2)
\* wacc_grid = linspace(max(0.02, perp_g + 0.005), max(0.05, wacc + 0.04), 12)
\* g_grid = linspace(0.0, max(0.06, perp_g + 0.02), 12)
\* The six rate literals, in the order they appear, as whole rates: the ends
\* of both ranges are then whole numbers, and the points between them stay
\* small fractions.
WaccGridFloor == RInt(1)
WaccGridGap == RInt(1)
WaccGridTopFloor == RInt(4)
WaccGridReach == RInt(4)
GGridTopFloor == RInt(4)
GGridReach == RInt(3)
\* mult_grid: max(4.0, exit_mult - 8) .. exit_mult + 8
MultGridFloor == 4
MultGridReach == 8

\* ------------------------------------------------------------------------
\* Helper functions of the script
\* ------------------------------------------------------------------------
\* np.linspace(start, stop, num): num evenly spaced points, both ends included
linspace(start, stop, num) ==
    [k \in 1..num |->
        IF num = 1 THEN start
        ELSE IF k = num THEN stop
        ELSE RAdd(start, RMul(RInt(k - 1), RDiv(RSub(stop, start), RInt(num - 1))))]

\* one discount factor, 1.0 / ((1 + wacc) ** (i + 1)), for the 1-based year
DiscountFactorExponentOffByOne(year, wacc) == RDiv(ROne, RPow(RAdd(ROne, wacc), year - 1))
DiscountFactor(year, wacc) == RDiv(ROne, RPow(RAdd(ROne, wacc), year))

discount_factors_array(years, wacc) == [i \in 1..years |-> DiscountFactor(i, wacc)]

\* ------------------------------------------------------------------------
\* Widget values
\* ------------------------------------------------------------------------
HorizonOptions == {ShortHorizon, LongHorizon}

\* one comma-separated field of the growth text input: whether float() accepts
\* it, and the number it then yields
Token(r) == [ok |-> TRUE, val |-> r]
BadToken == [ok |-> FALSE, val |-> RZero]

CustomRates == {Rat(1, 2), Rat(-1, 2)}
CsvInputs(h) ==
    UNION {{[i \in 1..n |-> Token(g)] : g \in CustomRates} : n \in {h - 1, h, h + 1}}
    \cup {[i \in 1..h |-> IF i = 2 THEN BadToken ELSE Token(Rat(1, 2))]}

\* Year-1 and terminal growth of the fade
FadeRates == {<<Rat(3, 2), RZero>>, <<RInt(2), Rat(1, 2)>>, <<Rat(-1, 2), ROne>>}

GrowthWidgets(h) ==
    {[growth_mode |-> "fade", high_growth |-> f[1], terminal_growth |-> f[2],
      custom_growth_csv |-> <<>>] : f \in FadeRates}
    \cup {[growth_mode |-> "custom", high_growth |-> NaN, terminal_growth |-> NaN,
           custom_growth_csv |-> csv] : csv \in CsvInputs(h)}

MarginWidgets ==
    {[cogs_pct |-> m[1], sga_pct |-> Rat(1, 8), rnd_pct |-> Rat(1, 8),
      da_pct |-> Rat(1, 4), capex_pct |-> m[2]] :
        m \in {<<Rat(1, 4), Rat(1, 8)>>, <<Rat(1, 2), ROne>>}}

NwcWidgets ==
    {[use_abs_nwc |-> TRUE, delta_nwc_abs |-> a, nwc_pct |-> NaN] :
        a \in {RInt(2), RInt(-1)}}
    \cup {[use_abs_nwc |-> FALSE, delta_nwc_abs |-> RInt(2), nwc_pct |-> p] :
        p \in {Rat(1, 4), Rat(1, 2)}}

TerminalWidgets ==
    {[tv_method |-> "Perpetuity", perp_g |-> g, exit_mult |-> NaN] :
        g \in {RZero, RInt(3)}}
    \cup {[tv_method |-> "Exit", perp_g |-> NaN, exit_mult |-> RInt(m)] :
        m \in {8, 15}}

\* everything the sidebar hands to the script in one run
Inputs ==
    UNION {
        {[revenue |-> RInt(64), diluted_shares |-> RInt(20000000), horizon |-> h,
          tax_rate |-> tr, wacc |-> wc, net_debt |-> nd] @@ gw @@ mw @@ nw @@ tw :
            gw \in GrowthWidgets(h), mw \in MarginWidgets, nw \in NwcWidgets,
            tr \in {Rat(1, 4), Rat(1, 2)}, wc \in {RZero, RInt(3)},
            tw \in TerminalWidgets, nd \in {RInt(-4), RInt(4)}} :
        h \in HorizonOptions}

\* ------------------------------------------------------------------------
\* State
\* ------------------------------------------------------------------------
VARIABLES
    pc,               \* the stage of the script the run has reached
    raised,           \* the exception that ended the run, or "none"
    inp,              \* the widget values of this run
    custom_growth,    \* the parsed growth text input
    growths,          \* the growth schedule
    revenues,         \* the projected revenues built so far
    df,               \* the projection table, one sequence per column
    discounts,        \* discount factors
    tv, pv_tv,        \* terminal value and its present value
    pv_fcfs_sum, enterprise_value, equity_value, per_share_value,
    metrics,          \* the numbers handed to the four summary cards
    wacc_grid, param_grid, Z   \* the sensitivity heatmap

vars == <<pc, raised, inp, custom_growth, growths, revenues, df, discounts, tv,
          pv_tv, pv_fcfs_sum, enterprise_value, equity_value, per_share_value,
          metrics, wacc_grid, param_grid, Z>>

Columns == {"Growth", "Revenue", "COGS", "SGA", "RnD", "EBITDA", "DA", "EBIT",
            "NOPAT", "CapEx", "dRevenue", "dNWC", "FCF", "DiscountFactor", "PVFCF"}

EmptyFrame == [c \in Columns |-> <<>>]
NoMetrics == [ev |-> NaN, pv_fcfs |-> NaN, pv_tv |-> NaN, equity |-> NaN]

\* the state at the top of the script, the widgets holding the values i
Start(i) ==
    /\ pc = "sidebar"
    /\ raised = "none"
    /\ inp = i
    /\ custom_growth = <<>>
    /\ growths = <<>>
    /\ revenues = <<>>
    /\ df = EmptyFrame
    /\ discounts = <<>>
    /\ tv = NaN
    /\ pv_tv = NaN
    /\ pv_fcfs_sum = NaN
    /\ enterprise_value = NaN
    /\ equity_value = NaN
    /\ per_share_value = NaN
    /\ metrics = NoMetrics
    /\ wacc_grid = <<>>
    /\ param_grid = <<>>
    /\ Z = <<>>

Init == \E i \in Inputs : Start(i)

\* ------------------------------------------------------------------------
\* Sidebar: the growth text input
\* ------------------------------------------------------------------------
\* [float(x.strip()) for x in csv.split(",")][:horizon], and [0.06]*horizon
\* when any field fails to parse
ParseCustomGrowth(csv, horizon) ==
    IF \A k \in 1..Len(csv) : csv[k].ok
    THEN [k \in 1..Min(Len(csv), horizon) |-> csv[k].val]
    ELSE [k \in 1..horizon |-> FallbackGrowth]

Sidebar ==
    /\ pc = "sidebar"
    /\ custom_growth' = IF inp.growth_mode = "custom"
                        THEN ParseCustomGrowth(inp.custom_growth_csv, inp.horizon)
                        ELSE custom_growth
    /\ pc' = "growths"
    /\ UNCHANGED <<raised, inp, growths, revenues, df, discounts, tv, pv_tv,
                   pv_fcfs_sum, enterprise_value, equity_value, per_share_value,
                   metrics, wacc_grid, param_grid, Z>>

\* ------------------------------------------------------------------------
\* Growth rates and projected revenues
\* ------------------------------------------------------------------------
BuildGrowths ==
    /\ pc = "growths"
    /\ growths' = IF inp.growth_mode = "fade"
                  THEN linspace(inp.high_growth, inp.terminal_growth, inp.horizon)
                  ELSE custom_growth
    /\ pc' = "revenues"
    /\ UNCHANGED <<raised, inp, custom_growth, revenues, df, discounts, tv, pv_tv,
                   pv_fcfs_sum, enterprise_value, equity_value, per_share_value,
                   metrics, wacc_grid, param_grid, Z>>

\* revenues.append(revenue * (1 + growths[0])) in the first pass of the loop,
\* revenues.append(revenues[-1] * (1 + growths[i])) in the later ones
NextRevenueNotCompounded(base, sofar, g) == RMul(base, RAdd(ROne, g))
NextRevenue(base, sofar, g) ==
    IF sofar = <<>> THEN RMul(base, RAdd(ROne, g))
    ELSE RMul(sofar[Len(sofar)], RAdd(ROne, g))

\* one pass of  for i in range(horizon);  growths[i] raises IndexError past
\* the end of the list
RevenueLoop ==
    /\ pc = "revenues"
    /\ Len(revenues) < inp.horizon
    /\ LET i == Len(revenues) + 1 IN
        IF i > Len(growths)
        THEN /\ raised' = "IndexError"
             /\ pc' = "raised"
             /\ UNCHANGED revenues
        ELSE /\ revenues' = Append(revenues, NextRevenue(inp.revenue, revenues, growths[i]))
             /\ pc' = IF i = inp.horizon THEN "frame" ELSE "revenues"
             /\ UNCHANGED raised
    /\ UNCHANGED <<inp, custom_growth, growths, df, discounts, tv, pv_tv,
                   pv_fcfs_sum, enterprise_value, equity_value, per_share_value,
                   metrics, wacc_grid, param_grid, Z>>

\* ------------------------------------------------------------------------
\* Line-item P&L
\* ------------------------------------------------------------------------
EbitdaRow(rev, cogs, sga, rnd) == RSub(rev, RAdd(RAdd(cogs, sga), rnd))

\* pd.DataFrame of Year, Growth and Revenue (columns of unequal length raise
\* ValueError), then the columns COGS .. CapEx
BuildFrame ==
    /\ pc = "frame"
    /\ IF Len(growths) # inp.horizon \/ Len(revenues) # inp.horizon
       THEN /\ raised' = "ValueError"
            /\ pc' = "raised"
            /\ UNCHANGED df
       ELSE LET Revenue == revenues
                COGS == ColMul(Revenue, inp.cogs_pct)
                SGA == ColMul(Revenue, inp.sga_pct)
                RnD == ColMul(Revenue, inp.rnd_pct)
                EBITDA == [y \in 1..inp.horizon |->
                              EbitdaRow(Revenue[y], COGS[y], SGA[y], RnD[y])]
                DA == ColMul(Revenue, inp.da_pct)
                EBIT == [y \in 1..inp.horizon |-> RSub(EBITDA[y], DA[y])]
                NOPAT == ColMul(EBIT, RSub(ROne, inp.tax_rate))
                CapEx == ColMul(Revenue, inp.capex_pct)
            IN  /\ df' = [df EXCEPT !.Growth = growths, !.Revenue = Revenue,
                                    !.COGS = COGS, !.SGA = SGA, !.RnD = RnD,
                                    !.EBITDA = EBITDA, !.DA = DA, !.EBIT = EBIT,
                                    !.NOPAT = NOPAT, !.CapEx = CapEx]
                /\ pc' = "nwc"
                /\ UNCHANGED raised
    /\ UNCHANGED <<inp, custom_growth, growths, revenues, discounts, tv, pv_tv,
                   pv_fcfs_sum, enterprise_value, equity_value, per_share_value,
                   metrics, wacc_grid, param_grid, Z>>

\* df["dNWC"] = 0.0, then df.at[0, "dNWC"] = delta_nwc_abs
ObservedNwcEveryYear(horizon, delta_nwc_abs) == [y \in 1..horizon |-> delta_nwc_abs]
ObservedNwc(horizon, delta_nwc_abs) ==
    [y \in 1..horizon |-> IF y = 1 /\ horizon >= 1 THEN delta_nwc_abs ELSE RZero]

\* df["Revenue"].diff().fillna(df["Revenue"].iloc[0]): the first row, which has
\* no row before it, gets the first year's revenue itself
DeltaRevenue(Revenue) ==
    [y \in 1..Len(Revenue) |->
        IF y = 1 THEN Revenue[1] ELSE RSub(Revenue[y], Revenue[y - 1])]

WorkingCapital ==
    /\ pc = "nwc"
    /\ \/ /\ inp.use_abs_nwc
          /\ df' = [df EXCEPT !.dNWC = ObservedNwc(inp.horizon, inp.delta_nwc_abs)]
       \/ /\ ~inp.use_abs_nwc
          /\ df' = [df EXCEPT !.dRevenue = DeltaRevenue(df.Revenue),
                              !.dNWC = ColMul(DeltaRevenue(df.Revenue), inp.nwc_pct)]
    /\ pc' = "fcf"
    /\ UNCHANGED <<raised, inp, custom_growth, growths, revenues, discounts, tv,
                   pv_tv, pv_fcfs_sum, enterprise_value, equity_value,
                   per_share_value, metrics, wacc_grid, param_grid, Z>>

\* NOPAT + D&A - CapEx - dNWC
FcfRowAddingCapEx(nopat, da, capex, dnwc) == RSub(RAdd(RAdd(nopat, da), capex), dnwc)
FcfRow(nopat, da, capex, dnwc) == RSub(RSub(RAdd(nopat, da), capex), dnwc)

FreeCashFlow ==
    /\ pc = "fcf"
    /\ df' = [df EXCEPT !.FCF = [y \in 1..inp.horizon |->
                  FcfRow(df.NOPAT[y], df.DA[y], df.CapEx[y], df.dNWC[y])]]
    /\ pc' = "discount"
    /\ UNCHANGED <<raised, inp, custom_growth, growths, revenues, discounts, tv,
                   pv_tv, pv_fcfs_sum, enterprise_value, equity_value,
                   per_share_value, metrics, wacc_grid, param_grid, Z>>

\* ------------------------------------------------------------------------
\* Discounting, terminal value, enterprise and equity value
\* ------------------------------------------------------------------------
Discount ==
    /\ pc = "discount"
    /\ LET d == discount_factors_array(inp.horizon, inp.wacc) IN
        /\ discounts' = d
        /\ df' = [df EXCEPT !.DiscountFactor = d,
                            !.PVFCF = [y \in 1..inp.horizon |-> RMul(df.FCF[y], d[y])]]
    /\ pc' = "terminal"
    /\ UNCHANGED <<raised, inp, custom_growth, growths, revenues, tv, pv_tv,
                   pv_fcfs_sum, enterprise_value, equity_value, per_share_value,
                   metrics, wacc_grid, param_grid, Z>>

\* last_fcf * (1 + perp_g) / (wacc - perp_g), NaN unless wacc > perp_g
GordonTv(last_fcf, wacc, perp_g) ==
    IF RLe(wacc, perp_g) THEN NaN
    ELSE RDiv(RMul(last_fcf, RAdd(ROne, perp_g)), RSub(wacc, perp_g))

Terminal ==
    /\ pc = "terminal"
    /\ \/ /\ inp.tv_method = "Perpetuity"
          /\ LET t == GordonTv(df.FCF[inp.horizon], inp.wacc, inp.perp_g) IN
              /\ tv' = t
              /\ pv_tv' = IF ~IsNan(t) THEN RMul(t, discounts[inp.horizon]) ELSE NaN
       \/ /\ inp.tv_method = "Exit"
          /\ LET t == RMul(df.EBITDA[inp.horizon], inp.exit_mult) IN
              /\ tv' = t
              /\ pv_tv' = RMul(t, discounts[inp.horizon])
    /\ pc' = "aggregate"
    /\ UNCHANGED <<raised, inp, custom_growth, growths, revenues, df, discounts,
                   pv_fcfs_sum, enterprise_value, equity_value, per_share_value,
                   metrics, wacc_grid, param_grid, Z>>

\* equity * 10000000.0 / diluted_shares
PerShare(equity, diluted_shares) == RMul(equity, RDiv(RInt(UnitScale), diluted_shares))

Equity(ev, net_debt) == RSub(ev, net_debt)

Aggregate ==
    /\ pc = "aggregate"
    /\ LET s == RSum(df.PVFCF)
           ev == RAdd(s, IF ~IsNan(pv_tv) THEN pv_tv ELSE RZero)
           eq == Equity(ev, inp.net_debt)
       IN  /\ pv_fcfs_sum' = s
           /\ enterprise_value' = ev
           /\ equity_value' = eq
           /\ per_share_value' = PerShare(eq, inp.diluted_shares)
    /\ pc' = "summary"
    /\ UNCHANGED <<raised, inp, custom_growth, growths, revenues, df, discounts, tv,
                   pv_tv, metrics, wacc_grid, param_grid, Z>>

\* the four st.metric cards (the numbers handed to human_fmt_crore)
Summary ==
    /\ pc = "summary"
    /\ metrics' = [ev |-> enterprise_value,
                   pv_fcfs |-> pv_fcfs_sum,
                   pv_tv |-> IF ~IsNan(pv_tv) THEN pv_tv ELSE RZero,
                   equity |-> equity_value]
    /\ pc' = "sensitivity"
    /\ UNCHANGED <<raised, inp, custom_growth, growths, revenues, df, discounts, tv,
                   pv_tv, pv_fcfs_sum, enterprise_value, equity_value,
                   per_share_value, wacc_grid, param_grid, Z>>

\* ------------------------------------------------------------------------
\* Sensitivity heatmap
\* ------------------------------------------------------------------------
\* the per-share value of a cell from its terminal value tvx
CellPerShare(tvx, W, horizon, sum, net_debt, diluted_shares) ==
    LET pv_tvx == RMul(tvx, RDiv(ROne, RPow(RAdd(ROne, W), horizon)))
        evx == RAdd(sum, pv_tvx)
        eqx == RSub(evx, net_debt)
    IN  PerShare(eqx, diluted_shares)

PerpetuityCellZeroWhenUndefined(W, G, last_fcf, horizon, sum, net_debt, diluted_shares) ==
    IF RLe(W, G) THEN RZero
    ELSE CellPerShare(RDiv(RMul(last_fcf, RAdd(ROne, G)), RSub(W, G)),
                      W, horizon, sum, net_debt, diluted_shares)
PerpetuityCell(W, G, last_fcf, horizon, sum, net_debt, diluted_shares) ==
    IF RLe(W, G) THEN NaN
    ELSE CellPerShare(RDiv(RMul(last_fcf, RAdd(ROne, G)), RSub(W, G)),
                      W, horizon, sum, net_debt, diluted_shares)

ExitCell(W, M, last_ebitda, horizon, sum, net_debt, diluted_shares) ==
    CellPerShare(RMul(last_ebitda, M), W, horizon, sum, net_debt, diluted_shares)

Sensitivity ==
    /\ pc = "sensitivity"
    /\ \/ /\ inp.tv_method = "Perpetuity"
          /\ LET wg == linspace(RMax(WaccGridFloor, RAdd(inp.perp_g, WaccGridGap)),
                                RMax(WaccGridTopFloor, RAdd(inp.wacc, WaccGridReach)),
                                GridPoints)
                 gg == linspace(RZero, RMax(GGridTopFloor, RAdd(inp.perp_g, GGridReach)),
                                GridPoints)
             IN  /\ wacc_grid' = wg
                 /\ param_grid' = gg
                 /\ Z' = [r \in 1..Len(wg) |-> [c \in 1..Len(gg) |->
                            PerpetuityCell(wg[r], gg[c], df.FCF[inp.horizon], inp.horizon,
                                           pv_fcfs_sum, inp.net_debt, inp.diluted_shares)]]
       \/ /\ inp.tv_method = "Exit"
          /\ LET wg == linspace(WaccGridFloor,
                                RMax(WaccGridTopFloor, RAdd(inp.wacc, WaccGridReach)),
                                GridPoints)
                 mg == linspace(RMax(RInt(MultGridFloor),
                                     RSub(inp.exit_mult, RInt(MultGridReach))),
                                RAdd(inp.exit_mult, RInt(MultGridReach)), GridPoints)
             IN  /\ wacc_grid' = wg
                 /\ param_grid' = mg
                 /\ Z' = [r \in 1..Len(wg) |-> [c \in 1..Len(mg) |->
                            ExitCell(wg[r], mg[c], df.EBITDA[inp.horizon], inp.horizon,
                                     pv_fcfs_sum, inp.net_debt, inp.diluted_shares)]]
    /\ pc' = "done"
    /\ UNCHANGED <<raised, inp, custom_growth, growths, revenues, df, discounts, tv,
                   pv_tv, pv_fcfs_sum, enterprise_value, equity_value,
                   per_share_value, metrics>>

\* ------------------------------------------------------------------------
\* One run of the script.  Streamlit runs it again from the top, with the new
\* widget values, whenever a widget changes: every run starts in a state of
\* Init, and nothing of the previous run is read.
\* ------------------------------------------------------------------------
Next ==
    \/ Sidebar
    \/ BuildGrowths
    \/ RevenueLoop
    \/ BuildFrame
    \/ WorkingCapital
    \/ FreeCashFlow
    \/ Discount
    \/ Terminal
    \/ Aggregate
    \/ Summary
    \/ Sensitivity

Spec == Init /\ [][Next]_vars

\* ------------------------------------------------------------------------
\* Properties
\* ------------------------------------------------------------------------
\* how far the run has come (a run ended by an exception counts as nowhere)
StageNo ==
    CASE pc = "sidebar" -> 0
      [] pc = "growths" -> 1
      [] pc = "revenues" -> 2
      [] pc = "frame" -> 3
      [] pc = "nwc" -> 4
      [] pc = "fcf" -> 5
      [] pc = "discount" -> 6
      [] pc = "terminal" -> 7
      [] pc = "aggregate" -> 8
      [] pc = "summary" -> 9
      [] pc = "sensitivity" -> 10
      [] pc = "done" -> 11
      [] OTHER -> -1

Years == 1..inp.horizon
Perpetuity == inp.tv_method = "Perpetuity"

\* f[1] + ... + f[n], from the left
RECURSIVE SumTo(_, _)
SumTo(f, n) == IF n = 0 THEN RZero ELSE RAdd(SumTo(f, n - 1), f[n])

\* f[1] * ... * f[n]
RECURSIVE ProdTo(_, _)
ProdTo(f, n) == IF n = 0 THEN ROne ELSE RMul(ProdTo(f, n - 1), f[n])

\* C1: in perpetuity mode with wacc <= g the valuation ends undefined: the
\* run either stops with InvalidTerminalValue or hands no number on as
\* enterprise value, PV of terminal value, equity value or per-share value.
C1_UndefinedWhenWaccNotAboveG ==
    (Perpetuity /\ RLe(inp.wacc, inp.perp_g) /\ StageNo >= 10) =>
        /\ IsNan(enterprise_value)
        /\ IsNan(equity_value)
        /\ IsNan(per_share_value)
        /\ IsNan(metrics.ev)
        /\ IsNan(metrics.pv_tv)
        /\ IsNan(metrics.equity)

\* the per-share value of the valuation stage alone, run on the projection
\* rows with discount rate W and terminal parameter P
ValuationAt(W, P) ==
    LET d == discount_factors_array(inp.horizon, W)
        sum == SumTo([y \in Years |-> RMul(df.FCF[y], d[y])], inp.horizon)
        tvx == IF Perpetuity
               THEN RDiv(RMul(df.FCF[inp.horizon], RAdd(ROne, P)), RSub(W, P))
               ELSE RMul(df.EBITDA[inp.horizon], P)
        evx == RAdd(sum, RMul(tvx, d[inp.horizon]))
    IN  PerShare(RSub(evx, inp.net_debt), inp.diluted_shares)

\* C2: every cell of the sensitivity grid with a defined terminal value is
\* the per-share value the valuation stage yields on the base-case rows at
\* the cell's own WACC and terminal parameter.
C2_CellIsValuationAtItsWacc ==
    pc = "done" =>
        \A r \in 1..Len(Z) : \A c \in 1..Len(Z[r]) :
            (Perpetuity => RLt(param_grid[c], wacc_grid[r])) =>
                REq(Z[r][c], ValuationAt(wacc_grid[r], param_grid[c]))

\* C3: the perpetuity grid has one cell per (W, G) pair, and a cell is the
\* undefined marker exactly when W <= G; every other cell is a number.
C3_UndefinedMarkerIffWaccNotAboveG ==
    (pc = "done" /\ Perpetuity) =>
        /\ Len(wacc_grid) = GridPoints
        /\ Len(param_grid) = GridPoints
        /\ Len(Z) = Len(wacc_grid)
        /\ \A r \in 1..Len(Z) :
            /\ Len(Z[r]) = Len(param_grid)
            /\ \A c \in 1..Len(Z[r]) :
                IsNan(Z[r][c]) <=> RLe(wacc_grid[r], param_grid[c])

C3_Witness ==
    /\ pc = "done"
    /\ Perpetuity
    /\ \E r \in 1..Len(Z) : \E c \in 1..Len(Z[r]) :
        wacc_grid[r] = param_grid[c] /\ IsNan(Z[r][c])
    /\ \E r \in 1..Len(Z) : \E c \in 1..Len(Z[r]) :
        RLt(param_grid[c], wacc_grid[r]) /\ ~IsNan(Z[r][c]) /\ Z[r][c] # RZero

\* C4: the revenue loop only ever runs with a growth schedule as long as the
\* horizon, and a run that cannot have one ends in InvalidConfiguration.
C4_ScheduleLengthIsHorizon ==
    /\ pc = "revenues" => Len(growths) = inp.horizon
    /\ pc = "raised" => raised = "InvalidConfiguration"

\* C5: with the observed-dNWC policy off, dNWC of year i is
\* (revenue[i] - revenue[i-1]) * nwc_pct, revenue[0] being the base revenue.
C5_NwcFromRevenueChange ==
    (StageNo >= 5 /\ ~inp.use_abs_nwc) =>
        \A y \in Years :
            REq(df.dNWC[y],
                RMul(RSub(df.Revenue[y],
                          IF y = 1 THEN inp.revenue ELSE df.Revenue[y - 1]),
                     inp.nwc_pct))

\* C6: with the observed-dNWC policy on, dNWC of year 1 is the observed
\* value and dNWC of every later year is zero.
C6_ObservedNwcYearOneOnly ==
    (StageNo >= 5 /\ inp.use_abs_nwc) =>
        /\ Len(df.dNWC) = inp.horizon
        /\ df.dNWC[1] = inp.delta_nwc_abs
        /\ \A y \in Years : y > 1 => df.dNWC[y] = RZero

C6_Witness ==
    /\ pc = "done"
    /\ inp.use_abs_nwc
    /\ inp.horizon = LongHorizon
    /\ df.dNWC[1] = RInt(2)
    /\ df.dNWC[inp.horizon] = RZero
    /\ df.Revenue[inp.horizon] # df.Revenue[1]

\* C7: revenue[i] = revenue[i-1] * (1 + growth[i]) from the base revenue, so
\* the last revenue is the base revenue times the product of (1 + growth[i]);
\* with every growth above zero the revenues rise strictly year on year.
C7_RevenueCompounds ==
    StageNo >= 3 =>
        LET rev0(y) == IF y = 1 THEN inp.revenue ELSE revenues[y - 1] IN
        /\ Len(revenues) = inp.horizon
        /\ \A y \in Years : REq(revenues[y], RMul(rev0(y), RAdd(ROne, growths[y])))
        /\ REq(revenues[inp.horizon],
               RMul(inp.revenue,
                    ProdTo([y \in Years |-> RAdd(ROne, growths[y])], inp.horizon)))
        /\ ((\A y \in Years : RLt(RZero, growths[y])) /\ RLt(RZero, inp.revenue)) =>
                \A y \in Years : RLt(rev0(y), revenues[y])

C7_Witness ==
    /\ pc = "frame"
    /\ inp.horizon = LongHorizon
    /\ \A y \in Years : RLt(RZero, growths[y])
    /\ growths[1] # growths[inp.horizon]
    /\ RLt(revenues[1], revenues[inp.horizon])

\* C8: discountFactor[i] * (1 + wacc)^i = 1; for wacc >= 0 every factor is
\* in (0, 1], for wacc > 0 the factors fall strictly; PV FCF[i] is
\* fcf[i] * discountFactor[i] and pv_fcfs_sum is the sum of PV FCF.
C8_DiscountFactors ==
    /\ StageNo >= 7 =>
        /\ Len(discounts) = inp.horizon
        /\ df.DiscountFactor = discounts
        /\ \A y \in Years :
            /\ REq(RMul(discounts[y], ProdTo([k \in 1..y |-> RAdd(ROne, inp.wacc)], y)), ROne)
            /\ RLe(RZero, inp.wacc) => RLt(RZero, discounts[y]) /\ RLe(discounts[y], ROne)
            /\ (RLt(RZero, inp.wacc) /\ y > 1) => RLt(discounts[y], discounts[y - 1])
            /\ REq(df.PVFCF[y], RMul(df.FCF[y], discounts[y]))
    /\ StageNo >= 9 =>
        REq(pv_fcfs_sum, SumTo([y \in Years |-> RMul(df.FCF[y], discounts[y])], inp.horizon))

C8_Witness ==
    /\ pc = "done"
    /\ inp.horizon = LongHorizon
    /\ RLt(RZero, inp.wacc)
    /\ RLt(discounts[inp.horizon], discounts[1])
    /\ \A y \in Years : df.PVFCF[y] # RZero /\ df.PVFCF[y] # df.FCF[y]
    /\ pv_fcfs_sum # RZero

\* C9: enterprise value is pv_fcfs_sum plus TV * discountFactor[horizon] and
\* equity value is enterprise value minus net debt, so net cash puts equity
\* above enterprise value and net debt puts it below.
C9_EnterpriseAndEquity ==
    StageNo >= 9 =>
        /\ REq(enterprise_value, RAdd(pv_fcfs_sum, RMul(tv, discounts[inp.horizon])))
        /\ REq(pv_tv, RMul(tv, discounts[inp.horizon]))
        /\ REq(equity_value, RSub(enterprise_value, inp.net_debt))
        /\ RLt(inp.net_debt, RZero) => RLt(enterprise_value, equity_value)
        /\ RLt(RZero, inp.net_debt) => RLt(equity_value, enterprise_value)

\* C10: every projection row satisfies the line-item identities, and a
\* negative free cash flow is a value like any other: it raises nothing.
C10_LineItemIdentities ==
    /\ StageNo >= 6 =>
        \A y \in Years :
            LET rev == df.Revenue[y] IN
            /\ REq(df.COGS[y], RMul(rev, inp.cogs_pct))
            /\ REq(df.SGA[y], RMul(rev, inp.sga_pct))
            /\ REq(df.RnD[y], RMul(rev, inp.rnd_pct))
            /\ REq(df.DA[y], RMul(rev, inp.da_pct))
            /\ REq(df.CapEx[y], RMul(rev, inp.capex_pct))
            /\ REq(RAdd(df.EBITDA[y], RAdd(df.COGS[y], RAdd(df.SGA[y], df.RnD[y]))), rev)
            /\ REq(RAdd(df.EBIT[y], df.DA[y]), df.EBITDA[y])
            /\ REq(df.NOPAT[y], RSub(df.EBIT[y], RMul(df.EBIT[y], inp.tax_rate)))
            /\ REq(RAdd(df.FCF[y], RAdd(df.CapEx[y], df.dNWC[y])),
                   RAdd(df.NOPAT[y], df.DA[y]))
    /\ raised \in {"ValueError", "IndexError"} => StageNo = -1 /\ df.FCF = <<>>

C10_Witness ==
    /\ pc = "done"
    /\ raised = "none"
    /\ inp.horizon = LongHorizon
    /\ \E y \in Years : RLt(df.FCF[y], RZero)
    /\ \A y \in Years : df.NOPAT[y] # RZero /\ df.NOPAT[y] # df.EBIT[y]
====
